---- MODULE Spec2Model ----
(***************************************************************************)
(* Model of sd_webui_bayesian_merger/optimiser.py: the Optimiser           *)
(* orchestrator (sd_target_function, cleanup), save_best_log and load_log. *)
(* The collaborators Merger, Generator, AestheticScorer, Prompter and the  *)
(* run logger's writer live outside optimiser.py; they are modelled from   *)
(* their interface contract.                                               *)
(*                                                                         *)
(* Floats are scaled integers: weights in tenths (5 is 0.5), scores in     *)
(* units of 1/ScoreScale.  Python's None is the empty tuple and a present  *)
(* value v is the one-element tuple <<v>>.                                 *)
(***************************************************************************)
EXTENDS Integers, Sequences, FiniteSets, TLC

\* ------------------------------------------------------------------ bounds
MaxIter == 3            \* evaluate calls per run
NUM_TOTAL_BLOCKS == 2   \* merger.NUM_TOTAL_BLOCKS, reduced
MaxInitPoints == 1      \* cfg.init_points ranges over 0..MaxInitPoints
NumPayloads == 2        \* payloads rendered by the prompter
MaxLines == 3           \* lines of a log file handed to load_log
MaxFinal == 2           \* plot_and_save calls after the search

WeightVals == {0, 5}        \* base weights proposed by the strategy (tenths)
ImageScores == {-1, 0, 1}   \* per-image scores the scorer may return
GenCounts == {1, 2}         \* images one batch_generate call may return
MergeModes == {"weighted_sum", "sum_twice", "triple_sum"}

None == << >>
Some(v) == << v >>

VARIABLES
  merge_mode,          \* cfg.merge_mode
  init_points,         \* cfg.init_points
  has_beta,            \* self.has_beta
  iteration,           \* self.iteration
  _clean,              \* self._clean
  best_rolling_score,  \* self.best_rolling_score
  pc,                  \* position inside sd_target_function ("idle" between calls)
  error,               \* the exception that left sd_target_function, "none" if none
  params,              \* **params of the current call
  it_type,             \* phase tag of the current call
  weights_alpha, base_alpha, weights_beta, base_beta,   \* locals, lines 68-75
  payloads, paths, gi, images, gen_paths,               \* locals, lines 84-92
  avg_score,           \* local, line 103
  ret,                 \* value returned to the strategy by the current call
  model_out_name,      \* merger.model_out_name (the iteration it names)
  disk,                \* iterations whose checkpoint artifact is on disk
  best_ckpt,           \* iteration of the artifact retained as best, 0 if none
  merge_args,          \* arguments of the latest merger.merge call
  active_model,        \* checkpoint active in the generation client
  gen_count,           \* images the generation client returns for one batch
  best_log,            \* the best.log file
  run_log,             \* the run log file, a sequence of lines
  calls,               \* collaborator calls made by the current call, in order
  pre,                 \* best state as it was when the current call began
  h_best,              \* earliest completed call with the maximum score so far
  log_in,              \* file handed to load_log
  loaded,              \* outcome of load_log, None before it is called
  save_best,           \* cfg.save_best, drawn when line 199 first reads it
  fin_args,            \* best weights handed to plot_and_save, None before it
  fin_count,           \* plot_and_save calls made
  fin_calls,           \* collaborator calls of the latest plot_and_save call
  fin_first,           \* best.log and merge call left by the first plot_and_save
  fin_merge            \* merge call of the latest plot_and_save call, None if none

vars == << merge_mode, init_points, has_beta, iteration, _clean,
           best_rolling_score, pc, error, params, it_type, weights_alpha,
           base_alpha, weights_beta, base_beta, payloads, paths, gi, images,
           gen_paths, avg_score, ret, model_out_name, disk, best_ckpt,
           merge_args, active_model, gen_count, best_log, run_log, calls, pre, h_best,
           log_in, loaded, save_best, fin_args, fin_count, fin_calls,
           fin_first, fin_merge >>

cfgVars == << merge_mode, init_points, has_beta, gen_count >>
weightLocals == << weights_alpha, base_alpha, weights_beta, base_beta >>
genLocals == << payloads, paths, gi, images, gen_paths >>
mergerVars == << model_out_name, disk, best_ckpt, merge_args >>
logVars == << log_in, loaded >>
finVars == << save_best, fin_args, fin_count, fin_calls, fin_first, fin_merge >>

\* ------------------------------------------------------------- arithmetic
RECURSIVE Fact(_)
Fact(n) == IF n <= 1 THEN 1 ELSE n * Fact(n - 1)

RECURSIVE Sum(_)
Sum(s) == IF s = << >> THEN 0 ELSE Head(s) + Sum(Tail(s))

cfg_batch_size == 1

\* the largest number in a set of naturals
Max(S) == CHOOSE m \in S : \A n \in S : n <= m

\* scores are kept in units of 1/ScoreScale, so that every average is exact
ScoreScale == Fact(NumPayloads * Max(GenCounts))

\* ------------------------------------------------------------ the inputs
BlockKey(i) == "block_" \o ToString(i)
BetaKey(i) == BlockKey(i) \o "_beta"
Blocks == 0 .. (NUM_TOTAL_BLOCKS - 1)
AlphaKeys == {"base_alpha"} \cup {BlockKey(i) : i \in Blocks}
BetaKeys == {"base_beta"} \cup {BetaKey(i) : i \in Blocks}
AllKeys == AlphaKeys \cup BetaKeys

BlockVal(base, i) == (base + 2 * (i + 1)) % 11

FullParams(a, b) ==
  [k \in AllKeys |->
     IF k = "base_alpha" THEN a
     ELSE IF k = "base_beta" THEN b
     ELSE IF k \in {BlockKey(i) : i \in Blocks}
       THEN BlockVal(a, CHOOSE i \in Blocks : k = BlockKey(i))
       ELSE BlockVal(b, (CHOOSE i \in Blocks : k = BetaKey(i))) + 1]

MissingSets ==
  { {}, {"base_beta"}, {BetaKey(NUM_TOTAL_BLOCKS - 1)}, BetaKeys,
    {"base_alpha"}, {BlockKey(0)} }

\* every complete input, and one input for each way of leaving keys out
ParamInputs ==
  { FullParams(a, b) : a \in WeightVals, b \in WeightVals }
    \cup { [k \in (AllKeys \ m) |-> FullParams(5, 5)[k]] : m \in MissingSets }

\* ------------------------------------------------------------ formatting
\* str() of a float held in tenths: 5 is "0.5", 10 is "1.0"
Str(v) == ToString(v \div 10) \o "." \o ToString(v % 10)

RECURSIVE Join(_)
Join(strs) ==
  IF strs = << >> THEN ""
  ELSE IF Len(strs) = 1 THEN strs[1]
  ELSE strs[1] \o "," \o Join(Tail(strs))

\* ",".join(list(map(str, weights)))
WeightsStr(weights) == Join([i \in 1 .. Len(weights) |-> Str(weights[i])])

\* truth value of an Optional[float] in an if: None and 0.0 are false
Truthy(opt) == opt # None /\ opt[1] # 0

NoFile == [exists |-> FALSE, text |-> ""]

\* lines 210-219
save_best_log_append(alpha, weights, beta, wbeta) ==
  [exists |-> TRUE,
   text |-> best_log.text \o Str(alpha) \o "\n\n" \o weights
            \o (IF Truthy(beta)
                  THEN "\n" \o Str(beta[1]) \o "\n\n" \o wbeta
                  ELSE "")]

save_best_log(alpha, weights, beta, wbeta) ==
  [exists |-> TRUE,
   text |-> Str(alpha) \o "\n\n" \o weights
            \o (IF Truthy(beta)
                  THEN "\n" \o Str(beta[1]) \o "\n\n" \o wbeta
                  ELSE "")]

\* ---------------------------------------------------------------- run log
\* one JSON object per line; a line is its token sequence
Dumps(obj) == << "{", obj, "}" >>

\* json.loads of one line: the object, or None when it raises
Loads(line) ==
  IF Len(line) = 3 /\ line[1] = "{" /\ line[3] = "}" THEN Some(line[2]) ELSE None

\* lines 225-233: the loop over the lines, and the return
RECURSIVE load_log_from_rev(_, _)
load_log_from_rev(lines, iterations) ==
  IF lines = << >> THEN [raised |-> FALSE, iterations |-> iterations]
  ELSE IF Loads(Head(lines)) = None
    THEN [raised |-> TRUE, iterations |-> << >>]
    ELSE load_log_from_rev(Tail(lines), << Loads(Head(lines))[1] >> \o iterations)

RECURSIVE load_log_from_tolerant(_, _)
load_log_from_tolerant(lines, iterations) ==
  IF lines = << >> THEN [raised |-> FALSE, iterations |-> iterations]
  ELSE IF Loads(Head(lines)) = None
    THEN [raised |-> FALSE, iterations |-> iterations]
    ELSE load_log_from_tolerant(Tail(lines),
                                Append(iterations, Loads(Head(lines))[1]))

RECURSIVE load_log_from(_, _)
load_log_from(lines, iterations) ==
  IF lines = << >> THEN [raised |-> FALSE, iterations |-> iterations]
  ELSE IF Loads(Head(lines)) = None
    THEN [raised |-> TRUE, iterations |-> << >>]
    ELSE load_log_from(Tail(lines), Append(iterations, Loads(Head(lines))[1]))

load_log(log) == load_log_from(log, << >>)

\* the record written after a completed iteration: its index and phase tag
\* (the weights and the score it also carries are payload that load_log
\* hands back unread)
IterationRecord(it, tag) == [iteration |-> it, phase |-> tag]

LogStep(log, it, tag) == Append(log, Dumps(IterationRecord(it, tag)))

\* ------------------------------------------- checkpoint lifecycle manager
create_model_out_name(it) == it

merger_merge(d, name) == d \cup {name}

remove_previous_ckpt(d, current_it) == d \ {current_it - 1}

keep_best_ckpt_disk(d, best, name) == d \ ({best} \ {name})

\* ------------------------------------------------- prompter and generator
Payloads == [i \in 1 .. NumPayloads |-> [prompt |-> i, batch_size |-> 1]]
Paths == [i \in 1 .. NumPayloads |-> "img_" \o ToString(i)]

Repeat(x, n) == [j \in 1 .. n |-> x]

\* the images of one batch: each knows its prompt and the checkpoint that
\* was active when it was generated
batch_generate(payload, model, n) ==
  Repeat([prompt |-> payload.prompt, model |-> model], n)

\* ------------------------------------------------------------------ scorer
average_score(scores) == (Sum(scores) * ScoreScale) \div Len(scores)

\* batch_score followed by average_score: every average that some vector of
\* per-image scores gives for n images
ScoreOutcomes ==
  [n \in { NumPayloads * g : g \in GenCounts } |->
     { average_score(scores) : scores \in [1 .. n -> ImageScores] }]

\* ------------------------------------------------------------ __post_init__
\* line 36
HasBeta_sum_twice(mode) == mode \in {"sum_twice"}

HasBeta(mode) == mode \in {"sum_twice", "triple_sum"}

\* the part of the state a call must leave alone when it fails
Snapshot ==
  [score |-> best_rolling_score, log |-> best_log, ckpt |-> best_ckpt,
   name |-> model_out_name, disk |-> disk, iteration |-> iteration,
   clean |-> _clean]

InitOptimiser ==
  /\ merge_mode \in MergeModes
  /\ init_points \in 0 .. MaxInitPoints
  /\ gen_count \in GenCounts
  /\ has_beta = HasBeta(merge_mode)
  /\ iteration = 0
  /\ _clean = TRUE
  /\ best_rolling_score = 0
  /\ pc = "idle"
  /\ error = "none"
  /\ params = << >>
  /\ it_type = "none"
  /\ weights_alpha = << >> /\ base_alpha = None
  /\ weights_beta = None /\ base_beta = None
  /\ payloads = << >> /\ paths = << >> /\ gi = 0
  /\ images = << >> /\ gen_paths = << >>
  /\ avg_score = None
  /\ ret = None
  /\ model_out_name = create_model_out_name(0)
  /\ disk = {}
  /\ best_ckpt = 0
  /\ merge_args = None
  /\ active_model = None
  /\ best_log = NoFile
  /\ run_log = << >>
  /\ calls = << >>
  /\ pre = [score |-> 0, log |-> NoFile, ckpt |-> 0,
            name |-> create_model_out_name(0), disk |-> {}, iteration |-> 0,
            clean |-> TRUE]
  /\ h_best = None
  /\ loaded = None
  /\ save_best = None
  /\ fin_args = None
  /\ fin_count = 0
  /\ fin_calls = << >>
  /\ fin_first = None
  /\ fin_merge = None

Init == InitOptimiser /\ log_in = << >>

\* ------------------------------------------------------ sd_target_function
\* line 58
Increment_none(it) == it

Increment(it) == it + 1

\* line 65
PhaseTag_lt(it, warmup) == IF it < warmup THEN "warmup" ELSE "optimisation"

PhaseTag(it, warmup) == IF it <= warmup THEN "warmup" ELSE "optimisation"

\* lines 68-72: every key that is read is present, else KeyError
SchemaOK(p, beta) ==
  AlphaKeys \subseteq DOMAIN p /\ (beta => BetaKeys \subseteq DOMAIN p)

\* lines 58-75: count, classify, read the weights out of **params
Begin ==
  /\ pc = "idle"
  /\ iteration < MaxIter
  /\ \E p \in ParamInputs :
       /\ params' = p
       /\ iteration' = Increment(iteration)
       /\ it_type' = PhaseTag(iteration', init_points)
       /\ IF SchemaOK(p, has_beta)
            THEN /\ weights_alpha' = [i \in 1 .. NUM_TOTAL_BLOCKS |-> p[BlockKey(i - 1)]]
                 /\ base_alpha' = Some(p["base_alpha"])
                 /\ base_beta' = IF has_beta THEN Some(p["base_beta"]) ELSE None
                 /\ weights_beta' =
                      IF has_beta
                        THEN Some([i \in 1 .. NUM_TOTAL_BLOCKS |-> p[BetaKey(i - 1)]])
                        ELSE None
                 /\ pc' = "merge"
                 /\ error' = "none"
            ELSE /\ weights_alpha' = << >> /\ base_alpha' = None
                 /\ weights_beta' = None /\ base_beta' = None
                 /\ pc' = "aborted"
                 /\ error' = "KeyError"
  /\ payloads' = << >> /\ paths' = << >> /\ gi' = 0
  /\ images' = << >> /\ gen_paths' = << >>
  /\ avg_score' = None
  /\ ret' = None
  /\ calls' = << >>
  /\ pre' = Snapshot
  /\ UNCHANGED << cfgVars, _clean, best_rolling_score, mergerVars, active_model,
                  best_log, run_log, h_best, logVars, finVars >>

\* line 78: the arguments handed to merger.merge
MergeCall ==
  Some([weights_alpha |-> weights_alpha, weights_beta |-> weights_beta,
        base_alpha |-> base_alpha, base_beta |-> base_beta, best |-> FALSE])

\* lines 77-78
Merge ==
  /\ pc = "merge"
  /\ model_out_name' = create_model_out_name(iteration)
  /\ disk' = merger_merge(disk, model_out_name')
  /\ merge_args' = MergeCall
  /\ calls' = calls \o << "create_model_out_name", "merge" >>
  /\ pc' = "cleanup"
  /\ UNCHANGED << cfgVars, iteration, _clean, best_rolling_score, error, params,
                  it_type, weightLocals, genLocals, avg_score, ret, best_ckpt,
                  active_model, best_log, run_log, pre, h_best, logVars, finVars >>

\* merge raises: the artifact of this iteration may or may not have been written
MergeFails ==
  /\ pc = "merge"
  /\ model_out_name' = create_model_out_name(iteration)
  /\ disk' \in {disk, merger_merge(disk, model_out_name')}
  /\ merge_args' = MergeCall
  /\ calls' = calls \o << "create_model_out_name", "merge" >>
  /\ pc' = "aborted"
  /\ error' = "merge"
  /\ UNCHANGED << cfgVars, iteration, _clean, best_rolling_score, params, it_type,
                  weightLocals, genLocals, avg_score, ret, best_ckpt,
                  active_model, best_log, run_log, pre, h_best, logVars, finVars >>

\* line 41: the argument of remove_previous_ckpt
CleanupArg_prev == iteration - 1

CleanupArg_next == iteration + 1

CleanupArg == iteration

\* lines 38-43
cleanup_noreset ==
  IF _clean
    THEN /\ disk' = remove_previous_ckpt(disk, CleanupArg)
         /\ calls' = Append(calls, "remove_previous_ckpt")
         /\ UNCHANGED _clean
    ELSE UNCHANGED << _clean, disk, calls >>

cleanup_always ==
  /\ disk' = remove_previous_ckpt(disk, CleanupArg)
  /\ calls' = Append(calls, "remove_previous_ckpt")
  /\ _clean' = TRUE

cleanup ==
  IF _clean
    THEN /\ disk' = remove_previous_ckpt(disk, CleanupArg)
         /\ calls' = Append(calls, "remove_previous_ckpt")
         /\ UNCHANGED _clean
    ELSE /\ _clean' = TRUE
         /\ UNCHANGED << disk, calls >>

\* line 79
Cleanup ==
  /\ pc = "cleanup"
  /\ cleanup
  /\ pc' = "switch"
  /\ UNCHANGED << cfgVars, iteration, best_rolling_score, error, params, it_type,
                  weightLocals, genLocals, avg_score, ret, model_out_name,
                  best_ckpt, merge_args, active_model, best_log, run_log, pre,
                  h_best, logVars, finVars >>

\* line 81: the argument of switch_model
SwitchTarget_prev == pre.name

SwitchTarget == model_out_name

\* line 81
SwitchModel ==
  /\ pc = "switch"
  /\ active_model' = Some(SwitchTarget)
  /\ calls' = Append(calls, "switch_model")
  /\ pc' = "render"
  /\ UNCHANGED << cfgVars, iteration, _clean, best_rolling_score, error, params,
                  it_type, weightLocals, genLocals, avg_score, ret, mergerVars,
                  best_log, run_log, pre, h_best, logVars, finVars >>

\* lines 84-86
RenderPayloads ==
  /\ pc = "render"
  /\ images' = << >>
  /\ payloads' = Payloads
  /\ paths' = Paths
  /\ gen_paths' = << >>
  /\ gi' = 1
  /\ calls' = Append(calls, "render_payloads")
  /\ pc' = "generate"
  /\ UNCHANGED << cfgVars, iteration, _clean, best_rolling_score, error, params,
                  it_type, weightLocals, avg_score, ret, mergerVars, active_model,
                  best_log, run_log, pre, h_best, logVars, finVars >>

\* lines 87-92, one turn of the loop
BatchGenerate ==
  /\ pc = "generate"
  /\ gi <= Len(payloads)
  /\ images' = images \o batch_generate(payloads[gi], active_model[1], gen_count)
  /\ gen_paths' = gen_paths \o Repeat(paths[gi], cfg_batch_size * payloads[gi].batch_size)
  /\ gi' = gi + 1
  /\ calls' = Append(calls, "batch_generate")
  /\ UNCHANGED << cfgVars, iteration, _clean, best_rolling_score, pc, error, params,
                  it_type, weightLocals, payloads, paths, avg_score, ret,
                  mergerVars, active_model, best_log, run_log, pre, h_best,
                  logVars, finVars >>

BatchGenerateFails ==
  /\ pc = "generate"
  /\ gi <= Len(payloads)
  /\ calls' = Append(calls, "batch_generate")
  /\ pc' = "aborted"
  /\ error' = "generate"
  /\ UNCHANGED << cfgVars, iteration, _clean, best_rolling_score, params, it_type,
                  weightLocals, genLocals, avg_score, ret, mergerVars,
                  active_model, best_log, run_log, pre, h_best, logVars, finVars >>

\* lines 96-103
Score ==
  /\ pc = "generate"
  /\ gi > Len(payloads)
  /\ \E avg \in ScoreOutcomes[Len(images)] : avg_score' = Some(avg)
  /\ calls' = calls \o << "batch_score", "average_score" >>
  /\ pc' = "update"
  /\ UNCHANGED << cfgVars, iteration, _clean, best_rolling_score, error, params,
                  it_type, weightLocals, genLocals, ret, mergerVars, active_model,
                  best_log, run_log, pre, h_best, logVars, finVars >>

ScoreFails ==
  /\ pc = "generate"
  /\ gi > Len(payloads)
  /\ calls' = Append(calls, "batch_score")
  /\ pc' = "aborted"
  /\ error' = "score"
  /\ UNCHANGED << cfgVars, iteration, _clean, best_rolling_score, params, it_type,
                  weightLocals, genLocals, avg_score, ret, mergerVars,
                  active_model, best_log, run_log, pre, h_best, logVars, finVars >>

\* lines 108-117
weights_str == WeightsStr(weights_alpha)
weights_beta_str == IF has_beta THEN WeightsStr(weights_beta[1]) ELSE ""

\* line 119
IsNewBest_ge(score, best) == score >= best

IsNewBest_ne(score, best) == score # best

IsNewBest(score, best) == score > best

\* line 125: the value _clean gets on a new best
RetainFlag_true == TRUE

RetainFlag == FALSE

\* line 127
ReturnValue == avg_score

\* lines 106-127, and the strategy's log record for the completed iteration
UpdateBest ==
  /\ pc = "update"
  /\ IF IsNewBest(avg_score[1], best_rolling_score)
       THEN /\ best_rolling_score' = avg_score[1]
            /\ best_log' = save_best_log(base_alpha[1], weights_str, base_beta,
                                         weights_beta_str)
            /\ disk' = keep_best_ckpt_disk(disk, best_ckpt, model_out_name)
            /\ best_ckpt' = model_out_name
            /\ _clean' = RetainFlag
            /\ calls' = calls \o << "save_best_log", "keep_best_ckpt" >>
       ELSE UNCHANGED << best_rolling_score, best_log, disk, best_ckpt, _clean, calls >>
  /\ ret' = ReturnValue
  /\ run_log' = LogStep(run_log, iteration, it_type)
  /\ h_best' = IF h_best = None \/ avg_score[1] > h_best[1].score
                 THEN Some([score |-> avg_score[1], iteration |-> iteration,
                            params |-> params])
                 ELSE h_best
  /\ pc' = "idle"
  /\ UNCHANGED << cfgVars, iteration, error, params, it_type, weightLocals,
                  genLocals, avg_score, model_out_name, merge_args, active_model,
                  pre, logVars, finVars >>

\* ------------------------------------------------------------ plot_and_save
\* the best weights a strategy hands over: beta weights exactly in a
\* two-axis mode
FinalArgs(p, beta) ==
  [best_base_alpha |-> p["base_alpha"],
   best_weights_alpha |-> [i \in 1 .. NUM_TOTAL_BLOCKS |-> p[BlockKey(i - 1)]],
   best_base_beta |-> IF beta THEN Some(p["base_beta"]) ELSE None,
   best_weights_beta |->
     IF beta THEN Some([i \in 1 .. NUM_TOTAL_BLOCKS |-> p[BetaKey(i - 1)]])
     ELSE None]

\* the strategy hands over the weights of the best evaluation it has seen
FinalInputs ==
  IF h_best = None THEN { } ELSE { FinalArgs(h_best[1].params, has_beta) }

\* lines 201-207: the arguments of the final merge
FinalMergeCall_unflagged(a) ==
  Some([weights_alpha |-> a.best_weights_alpha,
        weights_beta |-> a.best_weights_beta,
        base_alpha |-> Some(a.best_base_alpha),
        base_beta |-> a.best_base_beta, best |-> FALSE])

FinalMergeCall(a) ==
  Some([weights_alpha |-> a.best_weights_alpha,
        weights_beta |-> a.best_weights_beta,
        base_alpha |-> Some(a.best_base_alpha),
        base_beta |-> a.best_base_beta, best |-> TRUE])

\* lines 161-171
best_weights_str(a) == WeightsStr(a.best_weights_alpha)
best_weights_str_beta(a) ==
  IF has_beta THEN WeightsStr(a.best_weights_beta[1]) ELSE ""

\* lines 137-207, for best weights a and cfg.save_best = sb
plot_and_save(a, sb) ==
  /\ best_log' = save_best_log(a.best_base_alpha, best_weights_str(a),
                               a.best_base_beta, best_weights_str_beta(a))
  /\ fin_calls' = << "convergence_plot", "save_best_log", "draw_unet" >>
                    \o (IF has_beta THEN << "draw_unet" >> ELSE << >>)
                    \o (IF sb THEN << "merge" >> ELSE << >>)
  /\ fin_merge' = IF sb THEN FinalMergeCall(a) ELSE None

\* the strategy's postprocess, once the search has evaluated something; a
\* repeated call gets the same best weights and the same configuration
PlotAndSave ==
  /\ pc \in {"idle", "finalised"}
  /\ fin_count < MaxFinal
  /\ \E a \in (IF fin_args = None THEN FinalInputs ELSE { fin_args[1] }),
        sb \in (IF save_best = None THEN BOOLEAN ELSE { save_best[1] }) :
       /\ fin_args' = Some(a)
       /\ save_best' = Some(sb)
       /\ plot_and_save(a, sb)
  /\ fin_count' = fin_count + 1
  /\ fin_first' = IF fin_count = 0
                    THEN Some([log |-> best_log', merge |-> fin_merge'])
                    ELSE fin_first
  /\ pc' = "finalised"
  /\ UNCHANGED << cfgVars, iteration, _clean, best_rolling_score, error, params,
                  it_type, weightLocals, genLocals, avg_score, ret,
                  mergerVars, active_model, run_log, calls, pre, h_best,
                  logVars >>

\* the run log of a finished run is read back with load_log
ReplayLog ==
  /\ pc = "idle"
  /\ log_in' = run_log
  /\ loaded' = Some(load_log(log_in'))
  /\ pc' = "replayed"
  /\ UNCHANGED << cfgVars, iteration, _clean, best_rolling_score, error, params,
                  it_type, weightLocals, genLocals, avg_score, ret, mergerVars,
                  active_model, best_log, run_log, calls, pre, h_best, finVars >>

Next ==
  \/ ReplayLog
  \/ PlotAndSave
  \/ Begin
  \/ Merge
  \/ MergeFails
  \/ Cleanup
  \/ SwitchModel
  \/ RenderPayloads
  \/ BatchGenerate
  \/ BatchGenerateFails
  \/ Score
  \/ ScoreFails
  \/ UpdateBest

Spec == Init /\ [][Next]_vars

\* ------------------------------------------------- load_log on its own
\* well-formed lines and the lines a cut-off write leaves behind
LogRecords == { IterationRecord(i, "warmup") : i \in 1 .. 2 }
WellFormedLines == { Dumps(r) : r \in LogRecords }
TruncatedLines == { SubSeq(l, 1, n) : l \in WellFormedLines, n \in 1 .. 2 }
LogLines == WellFormedLines \cup TruncatedLines

LogFiles == UNION { [1 .. n -> LogLines] : n \in 0 .. MaxLines }

InitLog == InitOptimiser /\ log_in \in LogFiles

LoadLog ==
  /\ loaded = None
  /\ loaded' = Some(load_log(log_in))
  /\ UNCHANGED << cfgVars, iteration, _clean, best_rolling_score, pc, error,
                  params, it_type, weightLocals, genLocals, avg_score, ret,
                  mergerVars, active_model, best_log, run_log, calls, pre,
                  h_best, log_in, finVars >>

NextLog == LoadLog

SpecLog == InitLog /\ [][NextLog]_vars

\* ------------------------------------------------------------ properties
Ran(seq) == { seq[i] : i \in DOMAIN seq }

\* the latest evaluate call ran to its return
Completed == pc \in {"idle", "replayed"} /\ ret # None

\* the latest evaluate call was left by an exception of a collaborator
CollaboratorFailed == error \in {"merge", "generate", "score"}

Saved == "save_best_log" \in Ran(calls)
Kept == "keep_best_ckpt" \in Ran(calls)

\* C1: in every evaluate call the best score is replaced, the best log
\* overwritten and keep_best_ckpt requested exactly when the call completes
\* with a score strictly greater than the best score held before the call;
\* on an equal or lower score, and at every earlier point of the call, none
\* of the three has happened and the incumbent stays.
C1_NewBestIffStrictlyGreater ==
  pc # "finalised" =>
    IF Completed /\ avg_score[1] > pre.score
      THEN best_rolling_score = avg_score[1] /\ Saved /\ Kept
           /\ best_ckpt = iteration
      ELSE /\ best_rolling_score = pre.score
           /\ best_log = pre.log
           /\ best_ckpt = pre.ckpt
           /\ ~Saved /\ ~Kept

\* a call that ties a positive incumbent found by an earlier call
C1_Witness ==
  /\ Completed
  /\ iteration >= 2
  /\ pre.score > 0
  /\ avg_score[1] = pre.score
  /\ best_ckpt < iteration
  /\ ~Kept

\* C2: after each completed evaluate call the artifacts on disk are at most
\* the single artifact retained as best and the artifact of the iteration
\* just completed; every other artifact of a prior iteration is gone.
C2_AtMostBestAndCurrentOnDisk ==
  Completed =>
    /\ disk \subseteq ({best_ckpt, iteration} \ {0})
    /\ (best_ckpt # 0 => best_ckpt \in disk)

\* the best of iteration 1 is still there two iterations later, iteration 2 is not
C2_Witness ==
  /\ Completed
  /\ iteration = 3
  /\ best_ckpt = 1
  /\ disk = {1, 3}

\* best.log as the claim reads it: the weights of input p, with or without
\* the second axis
AlphaText(p) ==
  Str(p["base_alpha"]) \o "\n\n"
    \o WeightsStr([i \in 1 .. NUM_TOTAL_BLOCKS |-> p[BlockKey(i - 1)]])

BetaText(p) ==
  "\n" \o Str(p["base_beta"]) \o "\n\n"
    \o WeightsStr([i \in 1 .. NUM_TOTAL_BLOCKS |-> p[BetaKey(i - 1)]])

HoldsWeights(log, p) ==
  /\ log.exists
  /\ \/ log.text = AlphaText(p)
     \/ BetaKeys \subseteq DOMAIN p /\ log.text = AlphaText(p) \o BetaText(p)

\* C3: after any sequence of completed evaluate calls the best score is the
\* maximum score returned so far, the best log holds the weights of the
\* earliest call that achieved it, and exactly one retained checkpoint exists,
\* the artifact of that call.
C3_BestIsEarliestMaximum ==
  Completed =>
    /\ best_rolling_score = h_best[1].score
    /\ HoldsWeights(best_log, h_best[1].params)
    /\ best_ckpt = h_best[1].iteration
    /\ best_ckpt \in disk

\* C4: no step of any evaluate call, completing or aborting, lowers the best
\* score.
C4_BestScoreNonDecreasing ==
  [][best_rolling_score' >= best_rolling_score]_vars

\* a call that scored below a positive incumbent and left it in place
C4_Witness ==
  /\ Completed
  /\ pre.score > 0
  /\ avg_score[1] < pre.score
  /\ best_rolling_score = pre.score

\* iterations that ran to their return
CompletedIterations ==
  IF pc \in {"idle", "finalised"} \/ (pc = "replayed" /\ error = "none")
    THEN iteration
    ELSE iteration - 1

\* C5: the run log holds exactly one entry per completed iteration, in
\* iteration order (indices 1..n), and load_log returns the same number of
\* entries in the same order without raising.
C5_RunLogOneEntryPerIteration ==
  /\ Len(run_log) = CompletedIterations
  /\ \A i \in 1 .. Len(run_log) :
       Loads(run_log[i]) # None /\ Loads(run_log[i])[1].iteration = i
  /\ (pc = "replayed" =>
        /\ ~loaded[1].raised
        /\ Len(loaded[1].iterations) = CompletedIterations
        /\ \A i \in 1 .. Len(loaded[1].iterations) :
             loaded[1].iterations[i].iteration = i)

\* the log of a run of several completed iterations has been read back
C5_Witness ==
  /\ pc = "replayed"
  /\ error = "none"
  /\ iteration >= 2
  /\ Len(run_log) = iteration
  /\ Len(loaded[1].iterations) = iteration

IsCycleCall(c) == c \in {"merge", "batch_generate", "batch_score", "average_score"}

\* the current call went through merge, every generation batch and scoring
FullCycle ==
  /\ SelectSeq(calls, IsCycleCall)
       = << "merge" >> \o Repeat("batch_generate", NumPayloads)
           \o << "batch_score", "average_score" >>
  /\ model_out_name = iteration
  /\ \A i \in 1 .. Len(images) : images[i].model = iteration

\* C6: when merge, batch_generate or batch_score fails the call is left by
\* the exception, returns no fitness value, and the best score, the best log
\* and the retained artifact are as they were before the call; every value
\* returned is the reduced score of a full merge-generate-score cycle of the
\* same iteration.
C6_FailurePropagatesBestIntact ==
  /\ (CollaboratorFailed =>
        /\ pc \in {"aborted", "replayed"}
        /\ ret = None
        /\ best_rolling_score = pre.score
        /\ best_log = pre.log
        /\ best_ckpt = pre.ckpt
        /\ (pre.ckpt # 0 => pre.ckpt \in disk))
  /\ (ret # None => ret = avg_score /\ FullCycle)

\* generation fails in the iteration right after the one that set the best,
\* once the cleanup step of that iteration has run
C6_Witness ==
  /\ error = "generate"
  /\ pre.ckpt # 0
  /\ pre.ckpt = iteration - 1
  /\ best_ckpt = pre.ckpt
  /\ iteration \in disk

TwoAxis == merge_mode \in {"sum_twice", "triple_sum"}

\* at least one evaluate call has begun, so params is the latest input
Began == iteration >= 1

\* C7: in a two-axis mode an input lacking base_beta or a per-block beta key
\* is rejected with a KeyError before any checkpoint is named or merged; in
\* a single-axis mode an input with every alpha key is accepted, returns a
\* fitness value when the call completes, and merge gets no beta weights
\* whether or not the input holds beta keys.
C7_WeightVectorSchema ==
  Began =>
    /\ (TwoAxis /\ ~(BetaKeys \subseteq DOMAIN params) =>
          /\ error = "KeyError"
          /\ ret = None
          /\ calls = << >>
          /\ model_out_name = pre.name
          /\ disk = pre.disk)
    /\ (~TwoAxis /\ AlphaKeys \subseteq DOMAIN params =>
          /\ error # "KeyError"
          /\ (pc = "idle" => ret # None /\ Len(ret) = 1)
          /\ ("merge" \in Ran(calls) =>
                /\ merge_args[1].weights_beta = None
                /\ merge_args[1].base_beta = None
                /\ merge_args[1].weights_alpha
                     = [i \in 1 .. NUM_TOTAL_BLOCKS |-> params[BlockKey(i - 1)]]))

\* triple_sum with base_beta left out of an input that has every alpha key
C7_Witness ==
  /\ merge_mode = "triple_sum"
  /\ Began
  /\ AlphaKeys \subseteq DOMAIN params
  /\ "base_beta" \notin DOMAIN params
  /\ error = "KeyError"

\* C8: on every new best, best.log is the base alpha, a blank line and the
\* comma-joined alpha weights, followed by the base beta and the comma-joined
\* beta weights exactly when the merge mode has a second axis, whatever the
\* weights are (a base beta of 0 included).
C8_BestLogFormat ==
  (Completed /\ Saved) =>
    best_log = [exists |-> TRUE,
                text |-> AlphaText(params)
                           \o (IF TwoAxis THEN BetaText(params) ELSE "")]

\* C9: the k-th evaluate call is tagged warmup for every k in 1..init_points
\* and optimisation for every k above it; with init_points = 0 no call is
\* tagged warmup.
C9_PhaseClassification ==
  Began =>
    /\ (iteration <= init_points => it_type = "warmup")
    /\ (iteration > init_points => it_type = "optimisation")

\* the first call of a run without warmup budget
C9_Witness ==
  /\ init_points = 0
  /\ iteration = 1
  /\ it_type = "optimisation"

AllWellFormed(f) == \A i \in 1 .. Len(f) : f[i] \in WellFormedLines

\* well-formed lines followed by one line cut off at end-of-file
TruncatedTail(f) ==
  /\ Len(f) >= 1
  /\ f[Len(f)] \in TruncatedLines
  /\ AllWellFormed(SubSeq(f, 1, Len(f) - 1))

\* the objects of well-formed lines
Entries(f) == [i \in 1 .. Len(f) |-> f[i][2]]

\* C10 as stated: on n well-formed lines followed by one truncated line
\* load_log returns the n parsed entries without raising.
C10_TruncatedTailTolerated ==
  (loaded # None /\ TruncatedTail(log_in)) =>
    /\ ~loaded[1].raised
    /\ loaded[1].iterations = Entries(SubSeq(log_in, 1, Len(log_in) - 1))

\* C10 (amended): load_log stops silently at end-of-input, returning the
\* parsed entries of a file of well-formed lines in order; a truncated
\* trailing line is not tolerated, its parse error leaves load_log and no
\* entries are returned.
C10_TruncatedTailRaises ==
  loaded # None =>
    /\ (AllWellFormed(log_in) =>
          ~loaded[1].raised /\ loaded[1].iterations = Entries(log_in))
    /\ (TruncatedTail(log_in) =>
          loaded[1].raised /\ loaded[1].iterations = << >>)

\* load_log has read two well-formed lines and a truncated third
C10_Witness ==
  /\ loaded # None
  /\ Len(log_in) = 3
  /\ TruncatedTail(log_in)
  /\ loaded[1].raised

\* C11: a second plot_and_save call with the same best weights leaves the
\* best log with the content the first call left, and when save_best is set
\* its final merge call has the arguments of the first call's.
C11_FinalisationIdempotent ==
  fin_count >= 2 =>
    /\ best_log = fin_first[1].log
    /\ fin_merge = fin_first[1].merge
    /\ (save_best[1] => fin_merge # None)

\* plot_and_save has run twice in a two-axis mode with save_best set
C11_Witness ==
  /\ fin_count = 2
  /\ save_best = Some(TRUE)
  /\ has_beta
  /\ best_log.exists

\* the evaluate call now open has finished its cleanup step
CleanupDone == "merge" \in Ran(calls) /\ pc \notin {"cleanup", "aborted"}

\* C12: at iteration n >= 2 cleanup requests the removal of the artifact of
\* iteration n-1 exactly when iteration n-1 did not set a new best; after a
\* new best the next cleanup skips once and resets the flag; after every
\* completed call the flag reads "retained" exactly when that call set a
\* new best.
C12_RetentionStateMachine ==
  /\ (Completed => (_clean = FALSE <=> Kept))
  /\ (iteration >= 2 /\ CleanupDone =>
        /\ ("remove_previous_ckpt" \in Ran(calls) <=> pre.ckpt # iteration - 1)
        /\ (pc \in {"switch", "render", "generate", "update"} =>
              /\ _clean = TRUE
              /\ (iteration - 1 \in disk <=> pre.ckpt = iteration - 1)))

\* the third call has skipped the removal of the second call's artifact,
\* which was a new best over the first call's
C12_Witness ==
  /\ iteration = 3
  /\ pc = "switch"
  /\ pre.ckpt = 2
  /\ "remove_previous_ckpt" \notin Ran(calls)
  /\ disk = {2, 3}
  /\ _clean = TRUE

\* the collaborator calls of an evaluate call, in the order of the code
CallOrder ==
  << "create_model_out_name", "merge", "remove_previous_ckpt", "switch_model",
     "render_payloads", "batch_generate", "batch_score", "average_score",
     "save_best_log", "keep_best_ckpt" >>

RankOf ==
  [c \in Ran(CallOrder) |-> CHOOSE i \in DOMAIN CallOrder : CallOrder[i] = c]

Rank(c) == RankOf[c]

\* the calls that have been made whenever c is made: all earlier ones but
\* the removal, which cleanup may skip
RequiredBefore ==
  [c \in Ran(CallOrder) |->
     { CallOrder[j] : j \in 1 .. RankOf[c] - 1 } \ {"remove_previous_ckpt"}]

\* C13: within an evaluate call the counter is incremented first and the
\* collaborators are called in the order output name, merge, cleanup,
\* switch_model, render_payloads, every batch_generate, batch_score,
\* average_score and then the best update with keep_best_ckpt; every image
\* is generated on the checkpoint merged in the current iteration.
C13_CallOrder ==
  LET made == Ran(calls) IN
    /\ \A i \in 1 .. Len(calls) - 1 :
         \/ Rank(calls[i]) < Rank(calls[i + 1])
         \/ calls[i] = "batch_generate" /\ calls[i + 1] = "batch_generate"
    /\ (calls # << >> =>
          /\ iteration = pre.iteration + 1
          /\ calls[1] = "create_model_out_name"
          /\ model_out_name = iteration)
    /\ \A c \in made : RequiredBefore[c] \subseteq made
    /\ ("batch_generate" \in made =>
          /\ active_model = Some(iteration)
          /\ merge_args[1].weights_alpha = weights_alpha)
    /\ \A i \in 1 .. Len(images) : images[i].model = iteration

\* the second call has generated all its batches on its own checkpoint
C13_Witness ==
  /\ iteration = 2
  /\ pc = "update"
  /\ Len(images) >= 2
  /\ "remove_previous_ckpt" \in Ran(calls)
  /\ active_model = Some(2)

\* C15: a plot_and_save call leaves the iteration counter, the best score and
\* the retention flag unchanged, calls neither the generator nor the scorer
\* and computes no score, and calls merge flagged as best with exactly the
\* best weights it was given, once, exactly when save_best is set.
C15_FinalisationReadOnly ==
  [][fin_count' # fin_count =>
       /\ UNCHANGED << iteration, best_rolling_score, _clean, avg_score, ret,
                       images, gen_paths, active_model, calls >>
       /\ Ran(fin_calls') \subseteq
            {"convergence_plot", "save_best_log", "draw_unet", "merge"}
       /\ Cardinality({ i \in DOMAIN fin_calls' : fin_calls'[i] = "merge" })
            = (IF save_best'[1] THEN 1 ELSE 0)
       /\ fin_merge' =
            IF save_best'[1]
              THEN Some([weights_alpha |-> fin_args'[1].best_weights_alpha,
                         weights_beta |-> fin_args'[1].best_weights_beta,
                         base_alpha |-> Some(fin_args'[1].best_base_alpha),
                         base_beta |-> fin_args'[1].best_base_beta,
                         best |-> TRUE])
              ELSE None]_vars

\* plot_and_save has run after a second call that set no new best, once
\* with save_best set and once without
C15_Witness ==
  /\ pc = "finalised"
  /\ iteration = 2
  /\ _clean = TRUE
  /\ best_rolling_score > 0
  /\ fin_merge # None

\* C14: the image list and the path list handed to batch_score have the same
\* length and the path at each index is the output path of the payload the
\* image at that index was generated from, however many images each batch
\* returns.
C14_ImagesAlignedWithPaths ==
  "batch_score" \in Ran(calls) =>
    /\ Len(images) = Len(gen_paths)
    /\ \A i \in 1 .. Len(images) :
         i <= Len(gen_paths) /\ gen_paths[i] = paths[images[i].prompt]

\* C16: after the first completed evaluate call a best is recorded whatever
\* the score, also a score of 0 or less: the best log is written, the
\* artifact of the best iteration is retained, and after the first call the
\* flag reads "retained".
C16_FirstCallAlwaysBest ==
  Completed =>
    /\ best_log.exists
    /\ best_ckpt # 0 /\ best_ckpt \in disk
    /\ (iteration = 1 => Saved /\ Kept /\ _clean = FALSE)

\* the removal of a checkpoint has just been requested by cleanup
RemovalRequested == pc = "switch" /\ "remove_previous_ckpt" \in Ran(calls)

\* C17: the checkpoint whose removal cleanup requests, the one before
\* cleanup's argument, is never the one most recently passed to switch_model.
C17_NeverRemovesActive ==
  RemovalRequested => active_model # Some(CleanupArg - 1)

\* C17, amended: the checkpoint whose removal cleanup requests is that of
\* the previous iteration, which from the second call on is still the one
\* last passed to switch_model; it is never the checkpoint merged in the
\* current iteration, which stays on disk and is passed to switch_model
\* before any batch is generated.
C17_RemovesPreviousNotCurrent ==
  /\ (RemovalRequested =>
        /\ CleanupArg - 1 = iteration - 1
        /\ (iteration >= 2 => active_model = Some(iteration - 1))
        /\ iteration - 1 \notin disk
        /\ model_out_name = iteration /\ iteration \in disk)
  /\ ("batch_generate" \in Ran(calls) /\ pc \in {"generate", "update"} =>
        /\ active_model = Some(iteration)
        /\ iteration \in disk)

\* the second call has asked for the removal of the first call's checkpoint
\* while the generator still has it active
C17_Witness ==
  /\ RemovalRequested
  /\ iteration = 2
  /\ active_model = Some(1)
  /\ disk = {2}

\* C18: a call rejected for a missing key leaves the iteration counter, the
\* best score, the retention flag and the disk as they were and calls no
\* collaborator.
C18_RejectedCallChangesNothing ==
  error = "KeyError" =>
    /\ iteration = pre.iteration
    /\ best_rolling_score = pre.score
    /\ _clean = pre.clean
    /\ disk = pre.disk
    /\ best_log = pre.log
    /\ calls = << >>

\* C18, amended: a call rejected for a missing key leaves the best score,
\* the retention flag, the best log and the disk as they were and calls no
\* collaborator, but the iteration counter has been incremented by one.
C18_RejectedCallOnlyCounts ==
  error = "KeyError" =>
    /\ iteration = pre.iteration + 1
    /\ best_rolling_score = pre.score
    /\ _clean = pre.clean
    /\ disk = pre.disk
    /\ best_ckpt = pre.ckpt
    /\ best_log = pre.log
    /\ calls = << >>
    /\ ret = None

\* the second call is rejected after a first call that set a new best
C18_Witness ==
  /\ error = "KeyError"
  /\ pc = "aborted"
  /\ iteration = 2
  /\ pre.clean = FALSE
  /\ pre.disk = {1}

\* C19: at every point of a run, inside an iteration and after an abort
\* too, the artifacts on disk other than the retained best are at most two,
\* those of the current and of the preceding iteration, and an aborted call
\* never removes or replaces the retained best.
C19_DiskBoundedAtEveryPoint ==
  /\ disk \ {best_ckpt} \subseteq {iteration, iteration - 1}
  /\ (best_ckpt # 0 => best_ckpt \in disk)
  /\ (pc = "aborted" => best_ckpt = pre.ckpt)

\* the third call failed in its merge: the best of the first call and the
\* artifact of the second are on disk
C19_Witness ==
  /\ pc = "aborted"
  /\ error = "merge"
  /\ iteration = 3
  /\ best_ckpt = 1
  /\ 2 \in disk

====
